---- MODULE Spec2Model ----
(***************************************************************************)
(* Model of controller::JointVelocityController                            *)
(* (youbot_description/src/arm_joint_velocity_control.cpp): init,          *)
(* starting, update and the velocityCommand subscriber callback.           *)
(*                                                                         *)
(* Sequences are 1-based here; the C++ index i is the TLA+ index i + 1.    *)
(***************************************************************************)
EXTENDS Integers, Sequences, FiniteSets, TLC

\* ------------------------------------------------------------------ bounds
MaxEntries == 2        \* longest brics_actuator::JointVelocities message
MaxTime    == 2        \* last reading of the robot clock
MaxRaceTime == 1       \* last reading of the robot clock when the threads interleave
MaxVel     == 1        \* velocities (measured and commanded) range over 0..MaxVel
MaxEffort  == 2        \* ticks are explored while every |commanded_effort_| <= MaxEffort

\* --------------------------------------------------------- the environment
RobotJoints == {"J1", "J2"}          \* names robotPtr->getJointState resolves
UnknownJoint == "J9"                 \* a name it does not resolve
Vel == 0 .. MaxVel
RadPerSec == "rad/s"                 \* to_string(si::radian_per_second)
Units == {RadPerSec, "deg/s"}
NotFound == -1                       \* lookup[j] == -1

\* one element of the "joints" parameter array: a string or something else
StringItem(n) == [isString |-> TRUE, name |-> n]
NonStringItem == [isString |-> FALSE, name |-> ""]
ConfigItems == {StringItem(n) : n \in RobotJoints \cup {UnknownJoint}} \cup {NonStringItem}

SeqsUpTo(S, n) == UNION {[1 .. k -> S] : k \in 0 .. n}

NoDuplicates(s) == \A a, b \in 1 .. Len(s) : a # b => s[a] # s[b]

\* the "joints" parameter: absent, not an array, or an array of items
JointConfigs ==
    {[kind |-> "absent", items |-> <<>>], [kind |-> "notArray", items |-> <<>>]}
    \cup {[kind |-> "array", items |-> s] :
            s \in {t \in SeqsUpTo(ConfigItems, Cardinality(RobotJoints)) : NoDuplicates(t)}}

\* messages on the "command" topic
JointValues == [joint_uri : RobotJoints, value : Vel, unit : Units]
Commands == SeqsUpTo(JointValues, MaxEntries)

\* ------------------------------------------------ control_toolbox::Pid gains
\* what pids[i].init reads from the gains namespace; the same for every joint
P_GAIN == 1
I_GAIN == 1
D_GAIN == 1
I_MAX  == 1
I_MIN  == -1

VARIABLES
    phase,              \* "constructed", "failed" (init returned false), "initialized"
    running,            \* the controller manager has called starting()
    subscribed,         \* subscriber is attached to the "command" topic
    joints,             \* std::vector<JointState*> joints, as joint names
    targetVelocities,   \* std::vector<double> targetVelocities
    pids,               \* std::vector<control_toolbox::Pid> pids (internal state)
    lastTime,           \* ros::Time lastTime
    robotTime,          \* what robotPtr->getTime() returns
    commanded_effort,   \* JointState::commanded_effort_ of every robot joint
    dt,                 \* update(): the dt of the last tick
    reports,            \* the ROS_ERROR lines of the last call
    ub,                 \* out-of-range vector accesses of the last call
    lastOp,             \* the last call made on the controller
    ticksInRow,         \* how many of the latest calls were ticks, counted up to 2
    lastSampleAt,       \* the robot clock at the last start event or tick
    commanded,          \* per bound joint: value of the latest matching command entry
    tpc,                \* where the realtime thread is inside update()
    currentTime,        \* update(): ros::Time currentTime
    ti,                 \* update(): the loop index i, 1-based
    cpc,                \* where the subscriber thread is inside velocityCommand()
    velocities,         \* velocityCommand(): the copy of the message entries
    lookup,             \* velocityCommand(): std::vector<int> lookup
    cj                  \* velocityCommand(): the write loop index j, 1-based

tickLocals == <<tpc, currentTime, ti>>
cmdLocals  == <<cpc, velocities, lookup, cj>>

vars == <<phase, running, subscribed, joints, targetVelocities, pids, lastTime,
          robotTime, commanded_effort, dt, reports, ub, lastOp, ticksInRow,
          lastSampleAt, commanded, tickLocals, cmdLocals>>

\* ---------------------------------------------------- control_toolbox::Pid
\* The library class behind pids[i], in integer arithmetic: the state kept is
\* the integral error and the last proportional error (the derivative error
\* is recomputed from it in every call that uses it).
PidZero == [p_error_last |-> 0, i_error |-> 0]

\* Pid::reset()
PidReset(pid) == PidZero

Clamp(x, lo, hi) == IF x > hi THEN hi ELSE IF x < lo THEN lo ELSE x

\* Pid::updatePid(error, dt): the state after the call
PidNext(pid, e, d) ==
    IF d = 0 THEN pid
    ELSE [p_error_last |-> e,
          i_error |-> Clamp(I_GAIN * (pid.i_error + d * e), I_MIN, I_MAX) \div I_GAIN]

\* Pid::updatePid(error, dt): the returned command
PidOut(pid, e, d) ==
    IF d = 0 THEN 0
    ELSE -(P_GAIN * e)
         - Clamp(I_GAIN * (pid.i_error + d * e), I_MIN, I_MAX)
         - D_GAIN * ((e - pid.p_error_last) \div d)

\* --------------------------------------------------------------- helpers
\* a resize that leaves the new slots at a non-zero value
ResizeUninitialised(v, n) == [k \in 1 .. n |-> IF k <= Len(v) THEN v[k] ELSE MaxVel]

\* std::vector<double>::resize(n): keep the first n, value-initialise the rest
Resize(v, n) == [k \in 1 .. n |-> IF k <= Len(v) THEN v[k] ELSE 0]

\* the bindings init makes before its first early return in the name loop
\* a name loop that binds the joints in the reverse of the configured order
BoundPrefixReversed(items) ==
    LET good(k) == items[k].isString /\ items[k].name \in RobotJoints
        n == CHOOSE m \in 0 .. Len(items) :
                 /\ \A k \in 1 .. m : good(k)
                 /\ (m = Len(items) \/ ~good(m + 1))
    IN  [k \in 1 .. n |-> items[n + 1 - k].name]

RECURSIVE BoundPrefix(_)
BoundPrefix(items) ==
    IF items = <<>> THEN <<>>
    ELSE IF ~items[1].isString \/ items[1].name \notin RobotJoints THEN <<>>
    ELSE <<items[1].name>> \o BoundPrefix(Tail(items))

\* ------------------------------------------------------------------ init
Init ==
    /\ phase = "constructed"
    /\ running = FALSE
    /\ subscribed = FALSE
    /\ joints = <<>>
    /\ targetVelocities = <<>>
    /\ pids = <<>>
    /\ lastTime = 0
    /\ robotTime = 0
    /\ commanded_effort = [n \in RobotJoints |-> 0]
    /\ dt = 0
    /\ reports = {}
    /\ ub = {}
    /\ lastOp = "none"
    /\ ticksInRow = 0
    /\ lastSampleAt = 0
    /\ commanded = <<>>
    /\ tpc = "idle"
    /\ currentTime = 0
    /\ ti = 1
    /\ cpc = "idle"
    /\ velocities = <<>>
    /\ lookup = <<>>
    /\ cj = 1

\* a calibration loop that looks at the first joint only
FirstCalibrated(bound, calibrated) ==
    bound = <<>> \/ calibrated[bound[1]]

\* init(), lines 100-105: every bound joint has calibrated_ set
AllCalibrated(bound, calibrated) ==
    \A i \in 1 .. Len(bound) : calibrated[bound[i]]

\* an init() that subscribes before it has checked anything
SubscribeFirst(ok) == TRUE

\* init(), lines 129-131: nodeHandle.subscribe("command", ...) is the last
\* statement before return true; every failure has returned before it
SubscribeReached(ok) == ok

\* bool JointVelocityController::init(robotPtr, nodeHandle)
InitController(cfg, calibrated, gainsOk) ==
    LET bound    == BoundPrefix(cfg.items)
        namesOk  == cfg.kind = "array" /\ Len(bound) = Len(cfg.items)
        calibOk  == AllCalibrated(bound, calibrated)
        pidsOk   == \A i \in 1 .. Len(bound) : gainsOk[bound[i]]
        sized    == namesOk /\ calibOk
        ok       == sized /\ pidsOk
    IN  /\ phase = "constructed"
        /\ joints' = (IF cfg.kind = "array" THEN bound ELSE <<>>)
        /\ targetVelocities' = (IF sized THEN Resize(targetVelocities, Len(bound))
                                ELSE targetVelocities)
        /\ pids' = (IF sized THEN [i \in 1 .. Len(bound) |-> PidZero] ELSE pids)
        /\ subscribed' = SubscribeReached(ok)
        /\ phase' = (IF ok THEN "initialized" ELSE "failed")
        /\ reports' = (IF cfg.kind = "absent" THEN {<<"no_joints", "">>}
                       ELSE IF cfg.kind = "notArray" THEN {<<"malformed", "">>}
                       ELSE IF ~namesOk THEN
                            (IF ~cfg.items[Len(bound) + 1].isString
                             THEN {<<"not_string", "">>}
                             ELSE {<<"joint_not_found", cfg.items[Len(bound) + 1].name>>})
                       ELSE IF ~calibOk THEN
                            {<<"not_calibrated",
                               bound[CHOOSE i \in 1 .. Len(bound) :
                                        /\ ~calibrated[bound[i]]
                                        /\ \A k \in 1 .. i - 1 : calibrated[bound[k]]]>>}
                       ELSE IF ~pidsOk THEN
                            {<<"no_pid",
                               bound[CHOOSE i \in 1 .. Len(bound) :
                                        /\ ~gainsOk[bound[i]]
                                        /\ \A k \in 1 .. i - 1 : gainsOk[bound[k]]]>>}
                       ELSE {})
        /\ commanded' = (IF ok THEN [i \in 1 .. Len(bound) |-> 0] ELSE commanded)
        /\ ub' = {}
        /\ lastOp' = "init"
        /\ ticksInRow' = 0
        /\ UNCHANGED <<running, lastTime, robotTime, commanded_effort, dt, lastSampleAt,
                       tickLocals, cmdLocals>>

InitStep ==
    \E cfg \in JointConfigs, calibrated \in [RobotJoints -> BOOLEAN],
       gainsOk \in [RobotJoints -> BOOLEAN] :
        InitController(cfg, calibrated, gainsOk)

\* ---------------------------------------------------------------- starting
\* a starting() that rebuilds the controller bank one controller short
StartingBodyShrinks ==
    /\ pids' = [i \in 1 .. (IF pids = <<>> THEN 0 ELSE Len(pids) - 1) |-> PidReset(pids[i])]
    /\ lastTime' = robotTime

\* a starting() that rewinds the clock baseline to the epoch
StartingBodyEpoch ==
    /\ pids' = [i \in 1 .. Len(pids) |-> PidReset(pids[i])]
    /\ lastTime' = 0

\* a starting() that samples the clock and forgets the controllers
StartingBodyNoReset ==
    /\ pids' = pids
    /\ lastTime' = robotTime

\* a starting() that resets the controllers and forgets the clock
StartingBodyNoClock ==
    /\ pids' = [i \in 1 .. Len(pids) |-> PidReset(pids[i])]
    /\ lastTime' = lastTime

\* the body of JointVelocityController::starting()
StartingBody ==
    /\ pids' = [i \in 1 .. Len(pids) |-> PidReset(pids[i])]
    /\ lastTime' = robotTime

\* the controller manager starts (or restarts) the controller
Starting ==
    /\ phase = "initialized"
    /\ tpc = "idle"
    /\ StartingBody
    /\ running' = TRUE
    /\ reports' = {}
    /\ ub' = {}
    /\ lastOp' = "start"
    /\ ticksInRow' = 0
    /\ lastSampleAt' = robotTime
    /\ UNCHANGED <<phase, subscribed, joints, targetVelocities, robotTime,
                   commanded_effort, dt, commanded, tickLocals, cmdLocals>>

\* ------------------------------------------------------------------ update
\* ros::Duration dt = currentTime - lastTime
Elapsed(now) == now - lastTime

\* an update() that never moves its baseline
NextLastTimeStale(now) == lastTime

\* lastTime = currentTime
NextLastTime(now) == now

\* targetVelocities[i] as update() reads it: past the end it is whatever the
\* memory holds
TargetRead(i, junk) ==
    IF i <= Len(targetVelocities) THEN targetVelocities[i] ELSE junk[i]

\* void JointVelocityController::update(), with the measured velocities
\* (JointState::velocity_) and the contents of out-of-range memory as inputs.
\* Ticks that would take an effort past MaxEffort are not explored.
Update(velocity, junk) ==
    LET now == robotTime
        d   == Elapsed(now)
        err == [i \in 1 .. Len(joints) |-> velocity[joints[i]] - TargetRead(i, junk)]
    IN  /\ phase = "initialized"
        /\ running
        /\ tpc = "idle"
        /\ cpc = "idle"
        /\ dt' = d
        /\ lastTime' = NextLastTime(now)
        /\ pids' = [i \in 1 .. Len(pids) |->
                        IF i <= Len(joints) THEN PidNext(pids[i], err[i], d) ELSE pids[i]]
        /\ commanded_effort' =
              [n \in RobotJoints |->
                 IF \E i \in 1 .. Len(joints) : joints[i] = n
                 THEN LET i == CHOOSE k \in 1 .. Len(joints) : joints[k] = n
                      IN  commanded_effort[n] + PidOut(pids[i], err[i], d)
                 ELSE commanded_effort[n]]
        /\ ub' = {<<"read", i>> : i \in {k \in 1 .. Len(joints) : k > Len(targetVelocities)}}
        /\ reports' = {}
        /\ lastOp' = "tick"
        /\ ticksInRow' = (IF ticksInRow < 2 THEN ticksInRow + 1 ELSE 2)
        /\ lastSampleAt' = robotTime
        /\ \A n \in RobotJoints : -MaxEffort <= commanded_effort'[n]
                                   /\ commanded_effort'[n] <= MaxEffort
        /\ UNCHANGED <<phase, running, subscribed, joints, targetVelocities, robotTime,
                       commanded, tickLocals, cmdLocals>>

Tick ==
    \E velocity \in [RobotJoints -> Vel] :
        \E junk \in [{k \in 1 .. Len(joints) : k > Len(targetVelocities)} -> Vel] :
            Update(velocity, junk)

\* --------------------------------------------------------- velocityCommand
\* the inner loop of velocityCommand: the index of the first entry for `name`
FirstMatch(vs, name) ==
    IF \E k \in 1 .. Len(vs) : vs[k].joint_uri = name
    THEN CHOOSE k \in 1 .. Len(vs) :
            /\ vs[k].joint_uri = name
            /\ \A m \in 1 .. k - 1 : vs[m].joint_uri # name
    ELSE NotFound

\* std::vector<int> lookup: from an index in joints to an index in the message
Lookup(vs) == [j \in 1 .. Len(joints) |-> FirstMatch(vs, joints[j])]

\* targetVelocities.resize(velocities.size())
ResizeTargets(vs) == Resize(targetVelocities, Len(vs))

\* the write loop of velocityCommand: slot j takes the value of entry lookup[j];
\* a write past the end does not change the vector
WriteTargets(resized, lk, vs) ==
    [k \in 1 .. Len(resized) |->
        IF k <= Len(lk) /\ lk[k] # NotFound /\ resized # <<>>
        THEN vs[lk[k]].value
        ELSE resized[k]]

\* a velocityCommand() that calls starting() for every message
StartingCalledAnyway == StartingBody

\* velocityCommand(), lines 164-167: starting() is called inside the
\* if (velocities.empty()) block only, so a non-empty message leaves pids and
\* lastTime alone
StartingNotCalled == UNCHANGED <<pids, lastTime>>

\* void JointVelocityController::velocityCommand(jointVelocities)
VelocityCommand(jointVelocities) ==
    /\ subscribed
    /\ tpc = "idle"
    /\ cpc = "idle"
    /\ IF jointVelocities = <<>>
       THEN /\ StartingBody
            /\ reports' = {}
            /\ ub' = {}
            /\ lastOp' = "reset"
            /\ ticksInRow' = 0
            /\ UNCHANGED <<targetVelocities, commanded>>
       ELSE LET lk      == Lookup(jointVelocities)
                resized == ResizeTargets(jointVelocities)
                matched == {j \in 1 .. Len(joints) : lk[j] # NotFound}
            IN  /\ targetVelocities' = WriteTargets(resized, lk, jointVelocities)
                /\ reports' =
                      {<<"not_in_command", joints[j]>> : j \in (1 .. Len(joints)) \ matched}
                      \cup {<<"bad_unit", joints[j]>> :
                              j \in {m \in matched :
                                       jointVelocities[lk[m]].unit # RadPerSec}}
                /\ ub' = {<<"write", j>> : j \in {m \in matched : m > Len(resized)}}
                /\ commanded' = [j \in 1 .. Len(joints) |->
                                    IF j \in matched THEN jointVelocities[lk[j]].value
                                    ELSE commanded[j]]
                /\ lastOp' = "command"
                /\ ticksInRow' = 0
                /\ StartingNotCalled
    /\ UNCHANGED <<phase, running, subscribed, joints, robotTime, commanded_effort,
                   dt, lastSampleAt, tickLocals, cmdLocals>>

Command == \E jointVelocities \in Commands : VelocityCommand(jointVelocities)

\* ------------------------------------------------------------- robot clock
\* the time source behind robotPtr->getTime() moves on
AdvanceTime ==
    /\ robotTime < MaxTime
    /\ robotTime' = robotTime + 1
    /\ UNCHANGED <<phase, running, subscribed, joints, targetVelocities, pids, lastTime,
                   commanded_effort, dt, reports, ub, lastOp, ticksInRow, lastSampleAt,
                   commanded, tickLocals, cmdLocals>>

Next == InitStep \/ Starting \/ Tick \/ Command \/ AdvanceTime

Spec == Init /\ [][Next]_vars

\* ============================================ the two threads, step by step
\* update() runs on the realtime thread and velocityCommand() on the
\* subscriber's thread, with no lock between them.  Here each handler is cut
\* at its accesses to the shared fields.  The bookkeeping variables (reports,
\* lastOp, ticksInRow, lastSampleAt, commanded) are not kept by these steps.

\* messages used when the threads interleave: the unit plays no part there
RaceCommands == {v \in Commands : \A k \in 1 .. Len(v) : v[k].unit = RadPerSec}

\* the time source moves on while the two threads run
RaceAdvanceTime ==
    /\ robotTime < MaxRaceTime
    /\ robotTime' = robotTime + 1
    /\ UNCHANGED <<phase, running, subscribed, joints, targetVelocities, pids, lastTime,
                   commanded_effort, dt, reports, ub, lastOp, ticksInRow, lastSampleAt,
                   commanded, tickLocals, cmdLocals>>

\* update(), line 146: read the clock
TickRead ==
    /\ phase = "initialized"
    /\ running
    /\ tpc = "idle"
    /\ currentTime' = robotTime
    /\ tpc' = "dt"
    /\ ub' = {}
    /\ UNCHANGED <<phase, running, subscribed, joints, targetVelocities, pids, lastTime,
                   robotTime, commanded_effort, dt, reports, lastOp, ticksInRow,
                   lastSampleAt, commanded, ti, cmdLocals>>

\* update(), line 147: compute dt from the baseline as it is now
TickDt ==
    /\ tpc = "dt"
    /\ dt' = Elapsed(currentTime)
    /\ tpc' = "store"
    /\ ub' = {}
    /\ UNCHANGED <<phase, running, subscribed, joints, targetVelocities, pids, lastTime,
                   robotTime, commanded_effort, reports, lastOp, ticksInRow, lastSampleAt,
                   commanded, currentTime, ti, cmdLocals>>

\* update(), line 148: store the new baseline
TickStore ==
    /\ tpc = "store"
    /\ lastTime' = NextLastTime(currentTime)
    /\ tpc' = "loop"
    /\ ti' = 1
    /\ ub' = {}
    /\ UNCHANGED <<phase, running, subscribed, joints, targetVelocities, pids,
                   robotTime, commanded_effort, dt, reports, lastOp, ticksInRow,
                   lastSampleAt, commanded, currentTime, cmdLocals>>

\* update(), lines 155-156: one iteration of the control loop
TickJoint(velocity, junk) ==
    LET read == IF ti <= Len(targetVelocities) THEN targetVelocities[ti] ELSE junk
        err  == velocity - read
        n    == joints[ti]
    IN  /\ tpc = "loop"
        /\ ti <= Len(joints)
        /\ pids' = [pids EXCEPT ![ti] = PidNext(pids[ti], err, dt)]
        /\ commanded_effort' =
              [commanded_effort EXCEPT ![n] = @ + PidOut(pids[ti], err, dt)]
        /\ -MaxEffort <= commanded_effort'[n] /\ commanded_effort'[n] <= MaxEffort
        /\ ub' = (IF ti <= Len(targetVelocities) THEN {} ELSE {<<"read", ti>>})
        /\ ti' = ti + 1
        /\ UNCHANGED <<phase, running, subscribed, joints, targetVelocities, lastTime,
                       robotTime, dt, reports, lastOp, ticksInRow, lastSampleAt, commanded,
                       tpc, currentTime, cmdLocals>>

TickJointStep ==
    \E velocity \in Vel :
        \E junk \in (IF ti <= Len(targetVelocities) THEN {0} ELSE Vel) :
            TickJoint(velocity, junk)

\* update(), line 154: the loop condition fails and update() returns
TickReturn ==
    /\ tpc = "loop"
    /\ ti > Len(joints)
    /\ tpc' = "idle"
    /\ currentTime' = 0
    /\ dt' = 0
    /\ ti' = 1
    /\ ub' = {}
    /\ UNCHANGED <<phase, running, subscribed, joints, targetVelocities, pids, lastTime,
                   robotTime, commanded_effort, reports, lastOp, ticksInRow,
                   lastSampleAt, commanded, cmdLocals>>

\* velocityCommand(), lines 162-181: copy the message; an empty one runs
\* starting() and returns, any other one fills lookup
CmdReceive(jointVelocities) ==
    /\ subscribed
    /\ cpc = "idle"
    /\ ub' = {}
    /\ IF jointVelocities = <<>>
       THEN /\ StartingBody
            /\ UNCHANGED cmdLocals
       ELSE /\ velocities' = jointVelocities
            /\ lookup' = Lookup(jointVelocities)
            /\ cpc' = "resize"
            /\ UNCHANGED <<pids, lastTime, cj>>
    /\ UNCHANGED <<phase, running, subscribed, joints, targetVelocities, robotTime,
                   commanded_effort, dt, reports, lastOp, ticksInRow, lastSampleAt,
                   commanded, tickLocals>>

CmdReceiveStep == \E jointVelocities \in RaceCommands : CmdReceive(jointVelocities)

\* velocityCommand(), line 184: targetVelocities.resize(velocities.size())
CmdResize ==
    /\ cpc = "resize"
    /\ targetVelocities' = ResizeTargets(velocities)
    /\ cpc' = "write"
    /\ cj' = 1
    /\ ub' = {}
    /\ UNCHANGED <<phase, running, subscribed, joints, pids, lastTime, robotTime,
                   commanded_effort, dt, reports, lastOp, ticksInRow, lastSampleAt,
                   commanded, tickLocals, velocities, lookup>>

\* velocityCommand(), lines 188-194: one iteration of the write loop
CmdWrite ==
    LET hit == lookup[cj] # NotFound /\ targetVelocities # <<>>
    IN  /\ cpc = "write"
        /\ cj <= Len(joints)
        /\ targetVelocities' =
              (IF hit /\ cj <= Len(targetVelocities)
               THEN [targetVelocities EXCEPT ![cj] = velocities[lookup[cj]].value]
               ELSE targetVelocities)
        /\ ub' = (IF hit /\ cj > Len(targetVelocities) THEN {<<"write", cj>>} ELSE {})
        /\ cj' = cj + 1
        /\ UNCHANGED <<phase, running, subscribed, joints, pids, lastTime, robotTime,
                       commanded_effort, dt, reports, lastOp, ticksInRow, lastSampleAt,
                       commanded, tickLocals, cpc, velocities, lookup>>

\* velocityCommand(), line 187: the loop condition fails and the callback returns
CmdReturn ==
    /\ cpc = "write"
    /\ cj > Len(joints)
    /\ cpc' = "idle"
    /\ velocities' = <<>>
    /\ lookup' = <<>>
    /\ cj' = 1
    /\ ub' = {}
    /\ UNCHANGED <<phase, running, subscribed, joints, targetVelocities, pids, lastTime,
                   robotTime, commanded_effort, dt, reports, lastOp, ticksInRow,
                   lastSampleAt, commanded, tickLocals>>

RaceNext ==
    \/ InitStep
    \/ Starting
    \/ RaceAdvanceTime
    \/ TickRead
    \/ TickDt
    \/ TickStore
    \/ TickJointStep
    \/ TickReturn
    \/ CmdReceiveStep
    \/ CmdResize
    \/ CmdWrite
    \/ CmdReturn

RaceSpec == Init /\ [][RaceNext]_vars

\* ========================================================= the claims
NonEmptyCommands == Commands \ {<<>>}

AllPidsZero(ps) == \A i \in 1 .. Len(ps) : ps[i] = PidZero

\* the entries of a message that name joint `name`, by position
EntriesFor(vs, name) == {k \in 1 .. Len(vs) : vs[k].joint_uri = name}

\* the first of them in message order
FirstEntryFor(vs, name) ==
    vs[CHOOSE k \in EntriesFor(vs, name) : \A m \in EntriesFor(vs, name) : k <= m]

\* C1: after a successful init the target-velocity set always has one slot per
\* bound joint.
C1_TargetLengthIsJointCount ==
    phase = "initialized" => Len(targetVelocities) = Len(joints)

\* C2: while a non-empty command is in progress inside the control loop of a
\* tick, every targetVelocities[i] the tick reads and every targetVelocities[j]
\* the command writes is at an index within the current length of the vector.
C2_ConcurrentAccessInRange ==
    (tpc = "loop" /\ cpc # "idle") => ub = {}

\* C3: a non-empty command leaves the target of every bound joint it does not
\* name as it was: still there, with the same value.
C3_UnmatchedTargetKept ==
    [][\A v \in NonEmptyCommands :
          VelocityCommand(v) =>
             \A j \in 1 .. Len(joints) :
                (EntriesFor(v, joints[j]) = {} /\ j <= Len(targetVelocities))
                   => /\ j <= Len(targetVelocities')
                      /\ targetVelocities'[j] = targetVelocities[j]]_vars

\* C4: after a non-empty command the slot of every bound joint the command
\* names holds the value of the first entry naming it.
C4_MatchedTargetIsFirstEntry ==
    [][\A v \in NonEmptyCommands :
          VelocityCommand(v) =>
             \A j \in 1 .. Len(joints) :
                EntriesFor(v, joints[j]) # {}
                   => /\ j <= Len(targetVelocities')
                      /\ targetVelocities'[j] = FirstEntryFor(v, joints[j]).value]_vars

\* C5: the target of every bound joint is the value of the latest command entry
\* that named it, or the initial zero when no command has named it.
C5_MostRecentCommandWins ==
    phase = "initialized" =>
        \A j \in 1 .. Len(joints) :
            /\ j <= Len(targetVelocities)
            /\ targetVelocities[j] = commanded[j]

\* C6: an empty command zeroes the state of every PID controller and leaves
\* the target-velocity set, values and length, as it was.
C6_EmptyCommandResetsPidsKeepsTargets ==
    [][VelocityCommand(<<>>) =>
          /\ Len(pids') = Len(pids)
          /\ AllPidsZero(pids')
          /\ targetVelocities' = targetVelocities]_vars

\* C6 witness: an empty command has run after ticks moved the efforts and a
\* command set a non-zero target; the PID state is zero and the target is kept.
C6_Witness ==
    /\ lastOp = "reset"
    /\ Len(pids) = 2
    /\ AllPidsZero(pids)
    /\ \E n \in RobotJoints : commanded_effort[n] # 0
    /\ \E j \in 1 .. Len(targetVelocities) : targetVelocities[j] # 0

\* C7: an empty command and a start event make the same change to the
\* controller: PID state zero, clock baseline = current time, targets, bindings
\* and efforts untouched.
C7_EmptyCommandIsStart ==
    [][(VelocityCommand(<<>>) \/ Starting) =>
          /\ Len(pids') = Len(pids)
          /\ AllPidsZero(pids')
          /\ lastTime' = robotTime
          /\ targetVelocities' = targetVelocities
          /\ joints' = joints
          /\ commanded_effort' = commanded_effort]_vars

\* C7 witness: an empty command re-sampled the clock later than the last start
\* event or tick did.
C7_Witness ==
    /\ lastOp = "reset"
    /\ running
    /\ Len(pids) > 0
    /\ AllPidsZero(pids)
    /\ lastTime = robotTime
    /\ lastSampleAt < robotTime

\* C8: when the first entry naming a bound joint has a unit other than rad/s,
\* the command reports the unit for that joint and still writes the value as
\* given into the joint's slot.
C8_WrongUnitStillWritten ==
    [][\A v \in NonEmptyCommands :
          VelocityCommand(v) =>
             \A j \in 1 .. Len(joints) :
                (/\ EntriesFor(v, joints[j]) # {}
                 /\ FirstEntryFor(v, joints[j]).unit # RadPerSec)
                   => /\ <<"bad_unit", joints[j]>> \in reports'
                      /\ j <= Len(targetVelocities')
                      /\ targetVelocities'[j] = FirstEntryFor(v, joints[j]).value]_vars

\* C9: a tick advances the PID of every bound joint once with
\* (measured velocity - target velocity, dt), one dt for all joints, adds the
\* PID output to that joint's commanded effort, and touches no other joint.
C9_TickPerJoint ==
    [][\A velocity \in [RobotJoints -> Vel] :
       \A junk \in [{k \in 1 .. Len(joints) : k > Len(targetVelocities)} -> Vel] :
          Update(velocity, junk) =>
             /\ \A i \in 1 .. Len(joints) :
                   /\ i <= Len(targetVelocities)
                   /\ pids'[i] = PidNext(pids[i], velocity[joints[i]] - targetVelocities[i], dt')
                   /\ commanded_effort'[joints[i]] =
                         commanded_effort[joints[i]]
                         + PidOut(pids[i], velocity[joints[i]] - targetVelocities[i], dt')
             /\ \A n \in RobotJoints :
                   (\A i \in 1 .. Len(joints) : joints[i] # n)
                      => commanded_effort'[n] = commanded_effort[n]]_vars

\* C10: the dt of a tick that directly follows a tick or a start event is the
\* clock reading at this tick minus the clock reading at that tick or start.
C10_DtIsElapsedSinceLastSample ==
    [][Tick => (lastOp \in {"tick", "start"} => dt' = robotTime - lastSampleAt)]_vars

\* C10 witness: two ticks in a row, the second one time unit after the first.
C10_Witness ==
    /\ lastOp = "tick"
    /\ ticksInRow = 2
    /\ lastSampleAt = robotTime
    /\ robotTime > 1
    /\ dt = 1

\* C11: with a clock that never runs backwards, the cycle-clock baseline
\* lastTime never decreases and no tick computes a negative dt, also when an
\* empty command re-samples the clock in the middle of a tick.
C11_BaselineMonotonic ==
    [][lastTime' >= lastTime /\ dt' >= 0]_vars

\* a configuration init has nothing to object to: an array of resolvable
\* names, every one calibrated and with loadable gains
GoodConfig(cfg, calibrated, gainsOk) ==
    /\ cfg.kind = "array"
    /\ \A k \in 1 .. Len(cfg.items) :
          /\ cfg.items[k].isString
          /\ cfg.items[k].name \in RobotJoints
          /\ calibrated[cfg.items[k].name]
          /\ gainsOk[cfg.items[k].name]

\* C12: for every joint-name list whose names are all strings, resolve, are
\* calibrated and have gains, init succeeds, joints has the length and order
\* of the list (binding k is element k), and pids and targetVelocities have
\* one slot per binding.
C12_GoodConfigBindsInOrder ==
    [][\A cfg \in JointConfigs, calibrated \in [RobotJoints -> BOOLEAN],
          gainsOk \in [RobotJoints -> BOOLEAN] :
          (InitController(cfg, calibrated, gainsOk) /\ GoodConfig(cfg, calibrated, gainsOk))
          => /\ phase' = "initialized"
             /\ Len(joints') = Len(cfg.items)
             /\ \A k \in 1 .. Len(cfg.items) : joints'[k] = cfg.items[k].name
             /\ Len(pids') = Len(joints')
             /\ Len(targetVelocities') = Len(joints')]_vars

\* init has succeeded on a two-name list given in the order J2, J1
C12_Witness ==
    /\ phase = "initialized"
    /\ lastOp = "init"
    /\ joints = <<"J2", "J1">>
    /\ Len(pids) = 2
    /\ Len(targetVelocities) = 2

\* the list names a joint the robot does not have
HasUnresolvable(cfg) ==
    /\ cfg.kind = "array"
    /\ \E k \in 1 .. Len(cfg.items) :
          cfg.items[k].isString /\ cfg.items[k].name \notin RobotJoints

\* C13: for every joint-name list containing an unresolvable name, at any
\* position, init fails with the joint-not-found error and leaves no partial
\* binding: joints is empty after the failed init.
C13_UnresolvableNameBindsNothing ==
    [][\A cfg \in JointConfigs, calibrated \in [RobotJoints -> BOOLEAN],
          gainsOk \in [RobotJoints -> BOOLEAN] :
          (InitController(cfg, calibrated, gainsOk) /\ HasUnresolvable(cfg))
          => /\ phase' = "failed"
             /\ \E r \in reports' : r[1] = "joint_not_found"
             /\ joints' = <<>>]_vars

\* every item of the list is a string naming a joint of the robot
AllNamesResolve(cfg) ==
    /\ cfg.kind = "array"
    /\ \A k \in 1 .. Len(cfg.items) :
          cfg.items[k].isString /\ cfg.items[k].name \in RobotJoints

\* C14 as stated: whenever a joint init has resolved is uncalibrated, init
\* fails with the calibration error, also when a later item of the list is
\* unresolvable or not a string; and init never succeeds with an uncalibrated
\* bound joint.
C14_UncalibratedAlwaysCalibrationError ==
    [][\A cfg \in JointConfigs, calibrated \in [RobotJoints -> BOOLEAN],
          gainsOk \in [RobotJoints -> BOOLEAN] :
          InitController(cfg, calibrated, gainsOk)
          => /\ (\E i \in 1 .. Len(joints') : ~calibrated[joints'[i]])
                => /\ phase' = "failed"
                   /\ \E r \in reports' : r[1] = "not_calibrated"
             /\ phase' = "initialized"
                => \A i \in 1 .. Len(joints') : calibrated[joints'[i]]]_vars

\* C14, amended: when every item is a string that resolves and some joint is
\* uncalibrated, init fails with the calibration error; when some item is not
\* a string or does not resolve, init fails with that item's error and not
\* the calibration error, whatever the calibration of the joints before it;
\* and init never succeeds with an uncalibrated bound joint.
C14_CalibrationCheckedAfterNames ==
    [][\A cfg \in JointConfigs, calibrated \in [RobotJoints -> BOOLEAN],
          gainsOk \in [RobotJoints -> BOOLEAN] :
          InitController(cfg, calibrated, gainsOk)
          => /\ (/\ AllNamesResolve(cfg)
                 /\ \E k \in 1 .. Len(cfg.items) : ~calibrated[cfg.items[k].name])
                => /\ phase' = "failed"
                   /\ \E r \in reports' : r[1] = "not_calibrated"
             /\ (cfg.kind = "array" /\ ~AllNamesResolve(cfg))
                => /\ phase' = "failed"
                   /\ \A r \in reports' : r[1] \in {"not_string", "joint_not_found"}
                   /\ reports' # {}
             /\ phase' = "initialized"
                => \A i \in 1 .. Len(joints') : calibrated[joints'[i]]]_vars

\* init has failed on a fully resolved two-name list whose second joint is
\* uncalibrated
C14_Witness ==
    /\ phase = "failed"
    /\ lastOp = "init"
    /\ joints = <<"J1", "J2">>
    /\ reports = {<<"not_calibrated", "J2">>}

\* C15 as stated: every start event resets the cycle clock and the target
\* set: after it lastTime is the current time and targetVelocities is all
\* zero with one slot per joint, whatever commands came before.  Taken on
\* the starts that find the target set with one slot per joint.
C15_StartResetsClockAndTargets ==
    [][(Starting /\ Len(targetVelocities) = Len(joints))
       => /\ lastTime' = robotTime
          /\ targetVelocities' = [i \in 1 .. Len(joints) |-> 0]]_vars

\* C15, amended: every start event resets the cycle clock and the PID state
\* and nothing else: after it lastTime is the current time, every PID is
\* zeroed, and targetVelocities is exactly what it was before the start.
C15_StartResetsClockKeepsTargets ==
    [][Starting => /\ lastTime' = robotTime
                   /\ AllPidsZero(pids')
                   /\ Len(pids') = Len(pids)
                   /\ targetVelocities' = targetVelocities]_vars

\* a restart at a later time with a commanded, non-zero target still in place
C15_Witness ==
    /\ lastOp = "start"
    /\ robotTime > 0
    /\ lastTime = robotTime
    /\ \E i \in 1 .. Len(targetVelocities) : targetVelocities[i] # 0

\* C16: the binding sequence is immutable after init: no start, tick or
\* command adds, removes or reorders a binding, and after a successful init
\* there are always as many PID controllers as bindings.
C16_BindingsFixedAfterInit ==
    [][/\ phase = "initialized" => joints' = joints
       /\ phase' = "initialized" => Len(pids') = Len(joints')]_vars

\* two joints bound in the order J2, J1, still so after a start, a later
\* tick and a command
C16_Witness ==
    /\ phase = "initialized"
    /\ joints = <<"J2", "J1">>
    /\ Len(pids) = 2
    /\ running
    /\ lastTime > 0
    /\ lastOp = "command"

\* C17: init failure is terminal and comes before any command: the command
\* topic is subscribed only by a successful init, a command is delivered only
\* to a subscribed, initialized controller, and after a failed init the
\* controller stays failed and unsubscribed with its fields as the failure
\* left them.
C17_NoCommandWithoutSuccessfulInit ==
    [][/\ subscribed' => phase' = "initialized"
       /\ (subscribed /\ phase = "initialized") \/ ~Command
       /\ phase = "failed"
          => UNCHANGED <<phase, subscribed, joints, targetVelocities, pids, lastTime,
                         commanded_effort>>]_vars

\* init has failed, time has passed, and the controller is still
\* unsubscribed with nothing delivered
C17_Witness ==
    /\ phase = "failed"
    /\ ~subscribed
    /\ lastOp = "init"
    /\ robotTime > 0
    /\ targetVelocities = <<>>

\* C18: in a non-empty command the joint-not-in-command condition is reported
\* for exactly the bound joints no entry names, and it stops nothing: every
\* bound joint some entry names, before or after an unnamed one, still
\* receives its value.
C18_UnmatchedReportedOthersWritten ==
    [][\A v \in NonEmptyCommands :
          VelocityCommand(v) =>
             /\ {r \in reports' : r[1] = "not_in_command"}
                   = {<<"not_in_command", joints[j]>> :
                         j \in {m \in 1 .. Len(joints) : EntriesFor(v, joints[m]) = {}}}
             /\ \A j \in 1 .. Len(joints) :
                   EntriesFor(v, joints[j]) # {}
                      => /\ j <= Len(targetVelocities')
                         /\ targetVelocities'[j] = FirstEntryFor(v, joints[j]).value]_vars

\* C19: a non-empty command changes the target-velocity set and nothing else
\* of the controller (PID state, clock baseline, bindings and commanded
\* efforts are as before), and a tick never changes the target-velocity set.
C19_CommandWritesTargetsOnly ==
    [][/\ \/ UNCHANGED <<pids, lastTime, commanded_effort, joints, running>>
          \/ ~\E v \in NonEmptyCommands : VelocityCommand(v)
       /\ \/ targetVelocities' = targetVelocities
          \/ ~Tick]_vars

\* a non-empty command has just changed a target while a PID holds state from
\* an earlier tick and the baseline is past zero
C19_Witness ==
    /\ lastOp = "command"
    /\ lastTime > 0
    /\ ~AllPidsZero(pids)
    /\ \E i \in 1 .. Len(targetVelocities) : targetVelocities[i] # 0
    /\ \E n \in RobotJoints : commanded_effort[n] # 0

\* one zero slot per bound joint
ZeroTargets == targetVelocities = [i \in 1 .. Len(joints) |-> 0]

\* C20: from a successful init until the first non-empty command every bound
\* joint's target is zero: init creates the set with one zero slot per joint,
\* and every step that is not a non-empty command (a start, a tick, an empty
\* command, the clock moving on) keeps it so.
C20_TargetsZeroUntilCommanded ==
    [][/\ phase' = "initialized" /\ phase = "constructed" => ZeroTargets'
       /\ \/ ZeroTargets'
          \/ ~(phase = "initialized" /\ ZeroTargets)
          \/ \E v \in NonEmptyCommands : VelocityCommand(v)]_vars

\* two joints, started, ticked at a later time and reset by an empty
\* command, with both targets still zero
C20_Witness ==
    /\ phase = "initialized"
    /\ Len(joints) = 2
    /\ ZeroTargets
    /\ running
    /\ lastOp = "reset"
    /\ lastTime > 0
    /\ \E n \in RobotJoints : commanded_effort[n] # 0

====
